---- MODULE Spec2Model ----
(***************************************************************************)
(* The workflow engine of SIGMA-OS (src/intelligent_agents/                *)
(* workflow_engine.py): WorkflowStep, Workflow and AtlasWorkflowEngine.    *)
(*                                                                         *)
(* Python strings are sequences of one-character strings, so that          *)
(* re.findall, str.replace and str.split are computed character by         *)
(* character.  Python values are tagged records: [t |-> "str", v |-> s],   *)
(* [t |-> "bool", v |-> b], [t |-> "int", v |-> n], [t |-> "none"] and     *)
(* [t |-> "dict", v |-> items] where items is the sequence of              *)
(* <<key, value>> pairs of the dict in insertion order.                    *)
(***************************************************************************)
EXTENDS Integers, Sequences, FiniteSets, TLC

(***************************************************************************)
(* String literals of the source.                                          *)
(***************************************************************************)
s_prev_result == <<"p", "r", "e", "v", "_", "r", "e", "s", "u", "l", "t">>
s_last_success == <<"l", "a", "s", "t", "_", "s", "u", "c", "c", "e", "s", "s">>
s_success == <<"s", "u", "c", "c", "e", "s", "s">>
s_result == <<"r", "e", "s", "u", "l", "t">>
s_data == <<"d", "a", "t", "a">>
s_task == <<"t", "a", "s", "k">>
s_command == <<"c", "o", "m", "m", "a", "n", "d">>
s_error == <<"e", "r", "r", "o", "r">>
s_output == <<"o", "u", "t", "p", "u", "t">>
s_transformation == <<"t", "r", "a", "n", "s", "f", "o", "r", "m", "a", "t", "i", "o", "n">>
s_transform_data == <<"t", "r", "a", "n", "s", "f", "o", "r", "m", "_", "d", "a", "t", "a">>
s_system_command == <<"s", "y", "s", "t", "e", "m", "_", "c", "o", "m", "m", "a", "n", "d">>
s_Unknown_error == <<"U", "n", "k", "n", "o", "w", "n", " ", "e", "r", "r", "o", "r">>
s_No_result == <<"N", "o", " ", "r", "e", "s", "u", "l", "t">>
s_Unknown_tool == <<"U", "n", "k", "n", "o", "w", "n", " ", "t", "o", "o", "l", ":", " ">>
s_None == <<"N", "o", "n", "e">>
s_True == <<"T", "r", "u", "e">>
s_False == <<"F", "a", "l", "s", "e">>
OPEN == <<"{", "{">>
CLOSE == <<"}", "}">>

(***************************************************************************)
(* Python values.                                                          *)
(***************************************************************************)
NoneV == [t |-> "none"]
StrV(s) == [t |-> "str", v |-> s]
BoolV(b) == [t |-> "bool", v |-> b]
DictV(items) == [t |-> "dict", v |-> items]
IntV(n) == [t |-> "int", v |-> n]
\* a bound method, what d.items is for a dict d
MethodV == [t |-> "method"]

IsDict(val) == val.t = "dict"
IsStr(val) == val.t = "str"

\* key in d, for the items d of a dict
Has(d, k) == \E n \in 1..Len(d) : d[n][1] = k

\* d.get(k, default)
Get(d, k, default) ==
    IF Has(d, k) THEN d[CHOOSE n \in 1..Len(d) : d[n][1] = k][2] ELSE default

\* d[k] = val: an existing key keeps its place, a new key is appended
Put(d, k, val) ==
    IF Has(d, k)
    THEN [n \in 1..Len(d) |-> IF d[n][1] = k THEN <<k, val>> ELSE d[n]]
    ELSE Append(d, <<k, val>>)

Keys(d) == {d[n][1] : n \in 1..Len(d)}

\* bool(val): None, False, 0, "" and {} are falsy
Truthy(val) ==
    CASE val.t = "none" -> FALSE
      [] val.t = "bool" -> val.v
      [] val.t = "int" -> val.v # 0
      [] val.t = "method" -> TRUE
      [] OTHER -> Len(val.v) > 0

\* str(n) for a small n
Decimal(n) == <<<<"0", "1", "2", "3", "4", "5", "6", "7", "8", "9">>[n + 1]>>

\* str(val) and repr(val); the repr of a string is the string in single
\* quotes (the strings of the model hold no quote and no backslash)
RECURSIVE Str(_), Repr(_), ItemsStr(_)
Str(val) ==
    CASE val.t = "str" -> val.v
      [] val.t = "none" -> s_None
      [] val.t = "bool" -> (IF val.v THEN s_True ELSE s_False)
      [] val.t = "int" -> Decimal(val.v)
      [] OTHER -> <<"{">> \o ItemsStr(val.v) \o <<"}">>

Repr(val) == IF val.t = "str" THEN <<"'">> \o val.v \o <<"'">> ELSE Str(val)

ItemsStr(d) ==
    IF Len(d) = 0 THEN <<>>
    ELSE <<"'">> \o d[1][1] \o <<"'", ":", " ">> \o Repr(d[1][2])
         \o (IF Len(d) = 1 THEN <<>> ELSE <<",", " ">> \o ItemsStr(Tail(d)))

(***************************************************************************)
(* String operations used by _resolve_params.                              *)
(***************************************************************************)
\* sub in s
Contains(s, sub) ==
    \E p \in 1..(Len(s) - Len(sub) + 1) : SubSeq(s, p, p + Len(sub) - 1) = sub

\* the first position >= from holding "}", or 0
RECURSIVE FirstClose(_, _)
FirstClose(s, from) ==
    IF from > Len(s) THEN 0
    ELSE IF s[from] = "}" THEN from
    ELSE FirstClose(s, from + 1)

\* the position of the last character of a match of \{\{([^}]+)\}\} that
\* starts at p, or 0: the group is the longest run without "}", at least one
\* character long, and "}}" must follow it
MatchEnd(s, p) ==
    IF p + 1 > Len(s) \/ s[p] # "{" \/ s[p + 1] # "{" THEN 0
    ELSE LET q == FirstClose(s, p + 2) IN
         IF q = 0 \/ q = p + 2 \/ q + 1 > Len(s) \/ s[q + 1] # "}" THEN 0
         ELSE q + 1

\* re.findall(r'\{\{([^}]+)\}\}', s): the groups of the non-overlapping
\* matches, leftmost first
RECURSIVE FindFrom(_, _)
FindFrom(s, p) ==
    IF p > Len(s) THEN <<>>
    ELSE LET e == MatchEnd(s, p) IN
         IF e = 0 THEN FindFrom(s, p + 1)
         ELSE <<SubSeq(s, p + 2, e - 2)>> \o FindFrom(s, e + 1)

FindAll(s) == FindFrom(s, 1)

\* s.replace(old, new) for a non-empty old: every non-overlapping occurrence,
\* leftmost first
RECURSIVE Replace(_, _, _)
Replace(s, old, new) ==
    IF Len(s) < Len(old) THEN s
    ELSE IF SubSeq(s, 1, Len(old)) = old
         THEN new \o Replace(SubSeq(s, Len(old) + 1, Len(s)), old, new)
         ELSE <<s[1]>> \o Replace(Tail(s), old, new)

\* the positions where sep occurs in s
Occurrences(s, sep) ==
    {p \in 1..(Len(s) - Len(sep) + 1) : SubSeq(s, p, p + Len(sep) - 1) = sep}

\* s.split(sep)[0]: the text before the first sep, all of s when there is none
Before(s, sep) ==
    LET at == Occurrences(s, sep) IN
    IF at = {} THEN s
    ELSE SubSeq(s, 1, (CHOOSE p \in at : \A r \in at : p <= r) - 1)

\* the text after the first sep, for an s that holds sep
After(s, sep) == SubSeq(s, Len(Before(s, sep)) + Len(sep) + 1, Len(s))

\* s.split('.')
RECURSIVE Split(_)
Split(s) ==
    IF \A p \in 1..Len(s) : s[p] # "." THEN <<s>>
    ELSE LET d == CHOOSE p \in 1..Len(s) :
                      s[p] = "." /\ \A r \in 1..(p - 1) : s[r] # "."
         IN <<SubSeq(s, 1, d - 1)>> \o Split(SubSeq(s, d + 1, Len(s)))

(***************************************************************************)
(* AtlasWorkflowEngine._resolve_params                                     *)
(***************************************************************************)
\* for part in parts: val = val.get(part, {}) if isinstance(val, dict) else None
RECURSIVE Walk(_, _)
Walk(val, parts) ==
    IF Len(parts) = 0 THEN val
    ELSE Walk(IF IsDict(val) THEN Get(val.v, Head(parts), DictV(<<>>)) ELSE NoneV,
              Tail(parts))

\* a variant of DottedText that looks the whole match up as one key
DottedAsPlain(match, context) == Str(Get(context, match, StrV(<<>>)))

\* the text that replaces {{match}} for a match with a '.'
DottedText(match, context) ==
    LET val == Walk(DictV(context), Split(match)) IN
    IF val # NoneV THEN Str(val) ELSE <<>>

\* the text that replaces {{match}} for a match without a '.'
PlainText(match, context) == Str(Get(context, match, StrV(<<>>)))

\* the body of "for match in matches", which rewrites value
SubstOne(value, match, context) ==
    Replace(value, OPEN \o match \o CLOSE,
            IF Contains(match, <<".">>) THEN DottedText(match, context)
            ELSE PlainText(match, context))

RECURSIVE SubstAll(_, _, _)
SubstAll(value, matches, context) ==
    IF Len(matches) = 0 THEN value
    ELSE SubstAll(SubstOne(value, Head(matches), context), Tail(matches), context)

\* one value of params
ResolveValue(val, context) ==
    IF IsStr(val) /\ Contains(val.v, OPEN) /\ Contains(val.v, CLOSE)
    THEN StrV(SubstAll(val.v, FindAll(val.v), context))
    ELSE val

_resolve_params(params, context) ==
    [n \in 1..Len(params) |-> <<params[n][1], ResolveValue(params[n][2], context)>>]

\* a variant of ResolveEffect that writes each resolved value back into
\* params ("params[key] = value")
ResolveInPlace(params, context) ==
    [resolved |-> _resolve_params(params, context),
     params |-> _resolve_params(params, context),
     context |-> context]

\* a variant of ResolveEffect that keeps the resolved params in the context
ResolveCaching(params, context) ==
    [resolved |-> _resolve_params(params, context),
     params |-> params,
     context |-> Put(context, <<"p", "a", "r", "a", "m", "s">>,
                     DictV(_resolve_params(params, context)))]

\* what a call of _resolve_params leaves behind: the values go into the new
\* dict resolved (lines 352, 374, 376), which is returned; params and
\* context are only read
ResolveEffect(params, context) ==
    [resolved |-> _resolve_params(params, context),
     params |-> params,
     context |-> context]

(***************************************************************************)
(* AtlasWorkflowEngine._evaluate_condition                                 *)
(***************************************************************************)
s_if == <<"i", "f", " ">>
s_not == <<"n", "o", "t", " ">>
s_context_open == <<"c", "o", "n", "t", "e", "x", "t", "[", "'">>
s_context_close == <<"'", "]">>
Raised == [t |-> "raise"]

\* s.strip(), for the blank
RECURSIVE Strip(_)
Strip(s) ==
    IF Len(s) = 0 THEN s
    ELSE IF Head(s) = " " THEN Strip(Tail(s))
    ELSE IF s[Len(s)] = " " THEN Strip(SubSeq(s, 1, Len(s) - 1))
    ELSE s

\* F(x), with x evaluated once
Once(F(_), x) == CHOOSE val \in {F(y) : y \in {x}} : TRUE

\* for key, value in context.items(): if key in condition:
\*     condition = condition.replace(key, f"context['{key}']")
RECURSIVE ResolveVariables(_, _)
ResolveVariables(condition, items) ==
    IF Len(items) = 0 THEN condition
    ELSE LET key == items[1][1] IN
         Once(LAMBDA replaced : ResolveVariables(replaced, Tail(items)),
              IF Contains(condition, key)
              THEN Replace(condition, key, s_context_open \o key \o s_context_close)
              ELSE condition)

\* lines 385-390: the text that eval is given
ResolvedCondition(condition, context) ==
    Once(LAMBDA stripped : ResolveVariables(stripped, context),
         Strip(Replace(condition, s_if, <<>>)))

StartsWith(s, pre) == Len(s) >= Len(pre) /\ SubSeq(s, 1, Len(pre)) = pre
EndsWith(s, suf) == Len(s) >= Len(suf) /\ SubSeq(s, Len(s) - Len(suf) + 1, Len(s)) = suf

\* the methods of a dict that the conditions of this model name
DictMethods == {<<"i", "t", "e", "m", "s">>, <<"k", "e", "y", "s">>}

\* getattr(val, name), for a dict or a bound method val and a name that is
\* not a dunder: a dict has its methods and no other attribute, whatever its
\* keys are; a bound method has none of these names
GetAttr(val, name) ==
    IF val.t = "dict" /\ name \in DictMethods THEN MethodV ELSE Raised

RECURSIVE GetAttrs(_, _)
GetAttrs(val, names) ==
    IF val = Raised \/ Len(names) = 0 THEN val
    ELSE GetAttrs(GetAttr(val, Head(names)), Tail(names))

\* "l > r" and "l == r", for an r that is a number: the order of two
\* numbers (a bool is the number 1 or 0), or a TypeError; equality never
\* raises
Compare(l, op, r) ==
    LET IsNum(val) == val.t \in {"bool", "int"}
        Num(val) == IF val.t = "int" THEN val.v ELSE IF val.v THEN 1 ELSE 0
    IN IF l = Raised \/ r = Raised THEN Raised
       ELSE IF op = <<">">>
       THEN (IF IsNum(l) /\ IsNum(r) THEN BoolV(Num(l) > Num(r)) ELSE Raised)
       ELSE BoolV(IF IsNum(l) /\ IsNum(r) THEN Num(l) = Num(r) ELSE l = r)

Digits == {<<"0">>, <<"1">>, <<"2">>, <<"3">>, <<"4">>, <<"5">>, <<"6">>, <<"7">>,
           <<"8">>, <<"9">>}
OperatorIn(e) ==
    IF Contains(e, <<" ", ">", " ">>) THEN <<">">>
    ELSE IF Contains(e, <<" ", "=", "=", " ">>) THEN <<"=", "=">>
    ELSE <<>>

\* eval(condition, {"context": context}) for the expressions of the plans of
\* this model: True, False, a digit, context['key'], an attribute reference
\* context['key'].a.b, "not" of an expression and "l > r" or "l == r".  Any
\* other text of these plans raises: a name that is not defined (NameError),
\* a text that does not parse (SyntaxError); so does a key that is not in
\* the context (KeyError), an attribute a value does not have
\* (AttributeError) and an order between a number and a value that is none
\* (TypeError).
RECURSIVE Eval(_, _)
Eval(e, context) ==
    IF e = s_True THEN BoolV(TRUE)
    ELSE IF e = s_False THEN BoolV(FALSE)
    ELSE IF StartsWith(e, s_not)
    THEN LET x == Once(LAMBDA rest : Eval(rest, context),
                       Strip(SubSeq(e, Len(s_not) + 1, Len(e)))) IN
         IF x = Raised THEN Raised ELSE BoolV(~Truthy(x))
    ELSE IF OperatorIn(e) # <<>>
    THEN LET op == <<" ">> \o OperatorIn(e) \o <<" ">> IN
         Once(LAMBDA sides : Compare(sides[1], OperatorIn(e), sides[2]),
              <<Once(LAMBDA l : Eval(l, context), Strip(Before(e, op))),
                Once(LAMBDA r : Eval(r, context), Strip(After(e, op)))>>)
    ELSE IF e \in Digits
    THEN IntV(CHOOSE n \in 0..9 : Decimal(n) = e)
    ELSE IF StartsWith(e, s_context_open) /\ Contains(e, s_context_close)
    THEN LET key == Before(SubSeq(e, Len(s_context_open) + 1, Len(e)), s_context_close)
             rest == After(e, s_context_close)
         IN IF Len(key) = 0 THEN Raised
            ELSE IF ~Has(context, key) THEN Raised
            ELSE IF rest = <<>> THEN Get(context, key, NoneV)
            ELSE IF Head(rest) = "." /\ Len(rest) > 1
            THEN GetAttrs(Get(context, key, NoneV), Split(Tail(rest)))
            ELSE Raised
    ELSE Raised

\* a variant of _evaluate_condition that returns False when anything raised
EvaluateConditionStrict(condition, context) ==
    Once(LAMBDA e : IF e = Raised THEN BoolV(FALSE) ELSE e,
         Once(LAMBDA text : Eval(text, context), ResolvedCondition(condition, context)))

\* the value returned: that of eval, or True when anything raised
_evaluate_condition(condition, context) ==
    Once(LAMBDA e : IF e = Raised THEN BoolV(TRUE) ELSE e,
         Once(LAMBDA text : Eval(text, context), ResolvedCondition(condition, context)))

(***************************************************************************)
(* Tools.  A tool call returns a value or raises: an outcome is            *)
(* [kind |-> "return", value |-> the value] or                             *)
(* [kind |-> "raise", value |-> the exception's message].                  *)
(***************************************************************************)
Returns(val) == [kind |-> "return", value |-> val]
Raises(msg) == [kind |-> "raise", value |-> StrV(msg)]

\* the agents the engine was constructed with
agents == {"system"}

\* AtlasWorkflowEngine._transform_data for a transformation other than
\* uppercase, lowercase and json_parse: the data comes back as it is
_transform_data(params) ==
    {Returns(DictV(<< <<s_success, BoolV(TRUE)>>,
                      <<s_result, Get(params, s_data, StrV(<<>>))>> >>))}

\* what SystemAgent.run may give back: the result of a command that ran, a
\* failure, nothing, or an exception
SystemOk ==
    DictV(<< <<s_success, BoolV(TRUE)>>,
             <<s_output, StrV(<<"o", "k">>)>>,
             <<s_error, NoneV>> >>)
SystemFailed ==
    DictV(<< <<s_success, BoolV(FALSE)>>, <<s_error, StrV(<<"b", "o", "o", "m">>)>> >>)
SystemAgentRun ==
    {Returns(SystemOk), Returns(SystemFailed), Returns(NoneV),
     Raises(<<"c", "r", "a", "s", "h">>)}

\* AtlasWorkflowEngine._system_command
_system_command(params) ==
    IF "system" \in agents THEN SystemAgentRun
    ELSE {Returns(DictV(<< <<s_success, BoolV(FALSE)>>,
                           <<s_error, StrV(<<"n", "o", " ", "a", "g", "e", "n", "t">>)>> >>))}

\* the tools of _register_default_tools that the plans of this model name
DefaultTools == {s_transform_data, s_system_command}
_register_default_tools ==
    [name \in DefaultTools |->
        IF name = s_transform_data THEN "_transform_data" ELSE "_system_command"]

\* tool_func(params, context)
CallTool(tool_func, params) ==
    IF tool_func = "_transform_data" THEN _transform_data(params)
    ELSE _system_command(params)

\* a variant of _execute_step that looks the tool up in the registry as it
\* was when the engine was constructed
ExecuteStepAsConstructed(step, registry, context) ==
    IF step.tool \notin DOMAIN _register_default_tools
    THEN {Raises(s_Unknown_tool \o step.tool)}
    ELSE CallTool(_register_default_tools[step.tool],
                  ResolveEffect(step.params, context).resolved)

\* AtlasWorkflowEngine._execute_step: the outcomes the call may have
_execute_step(step, registry, context) ==
    IF step.tool \notin DOMAIN registry
    THEN {Raises(s_Unknown_tool \o step.tool)}
    ELSE CallTool(registry[step.tool], ResolveEffect(step.params, context).resolved)

(***************************************************************************)
(* Bounds of the model.                                                    *)
(***************************************************************************)
\* the longest plan
MaxSteps == 2
\* the largest retry_count of a step
MaxRetry == 2
\* how many times execute_workflow is called on the plan
MaxRuns == 2
\* how many times it is called on each plan of a pair
MaxPairRuns == 1
\* the largest retry_count of a step of the plans of RetryPlans
MaxBackoffRetry == 3

(***************************************************************************)
(* WorkflowStep and the plans executed.                                    *)
(***************************************************************************)
\* WorkflowStep.__init__
WorkflowStep(step_id, action, tool, params, condition, retry_count) ==
    [step_id |-> step_id, action |-> action, tool |-> tool, params |-> params,
     condition |-> condition, retry_count |-> retry_count,
     status |-> "pending", result |-> NoneV, error |-> NoneV, attempts |-> 0]

s_s1 == <<"s", "1">>
s_s2 == <<"s", "2">>
s_s3 == <<"s", "3">>
s_s4 == <<"s", "4">>
s_s5 == <<"s", "5">>
s_echo == <<"e", "c", "h", "o">>
s_note == <<"n", "o", "t", "e">>
s_go == <<"g", "o">>

\* "if (": a condition that does not parse
s_if_paren == s_if \o <<"(">>

\* The steps plans are made of, for a retry_count r (a positive integer);
\* the action of each is "go".
\*   s1  transform_data  data = "hi", condition "if (" (a SyntaxError)
\*   s2  transform_data  data = "{{s1.result}}", note = "{{s3.error}}",
\*                       condition "if prev_result.success"
\*   s3  system_command  task = "go", condition "not prev_result"
\*   s4  echo, a tool that is not registered; no condition
\*   s5  system_command  condition "False"
\*   prev_result  system_command  task = "{{s1.result}}": a step named like
\*                the rolling key, with the empty condition ""
StepPool(r) ==
    { WorkflowStep(s_s1, s_go, s_transform_data,
                   << <<s_data, StrV(<<"h", "i">>)>> >>, StrV(s_if_paren), r),
      WorkflowStep(s_s2, s_go, s_transform_data,
                   << <<s_data, StrV(OPEN \o s_s1 \o <<".">> \o s_result \o CLOSE)>>,
                      <<s_note, StrV(OPEN \o s_s3 \o <<".">> \o s_error \o CLOSE)>> >>,
                   StrV(s_if \o s_prev_result \o <<".">> \o s_success), r),
      WorkflowStep(s_s3, s_go, s_system_command,
                   << <<s_task, StrV(s_go)>> >>, StrV(s_not \o s_prev_result), r),
      WorkflowStep(s_s4, s_go, s_echo, <<>>, NoneV, r),
      WorkflowStep(s_s5, s_go, s_system_command, <<>>, StrV(s_False), r),
      WorkflowStep(s_prev_result, s_go, s_system_command,
                   << <<s_task, StrV(OPEN \o s_s1 \o <<".">> \o s_result \o CLOSE)>> >>,
                   StrV(<<>>), r) }

\* step ids are unique within a plan
UniqueIds(plan) ==
    \A m, n \in 1..Len(plan) : plan[m].step_id = plan[n].step_id => m = n

\* the plans executed: up to MaxSteps steps, all with the same retry_count
Plans ==
    {plan \in UNION {[1..n -> StepPool(r)] : n \in 0..MaxSteps, r \in 1..MaxRetry} :
        UniqueIds(plan)}

(***************************************************************************)
(* AtlasWorkflowEngine.create_workflow_from_task                           *)
(***************************************************************************)
s_steps == <<"s", "t", "e", "p", "s">>
s_step_id == <<"s", "t", "e", "p", "_", "i", "d">>
s_action == <<"a", "c", "t", "i", "o", "n">>
s_tool == <<"t", "o", "o", "l">>
s_params == <<"p", "a", "r", "a", "m", "s">>
s_condition == <<"c", "o", "n", "d", "i", "t", "i", "o", "n">>
s_workflow_id == <<"w", "o", "r", "k", "f", "l", "o", "w", "_", "i", "d">>
s_name == <<"n", "a", "m", "e">>
s_description == <<"d", "e", "s", "c", "r", "i", "p", "t", "i", "o", "n">>
s_step_ == <<"s", "t", "e", "p", "_">>
s_Simple_Task == <<"S", "i", "m", "p", "l", "e", " ", "T", "a", "s", "k">>
s_Custom_Workflow == 
    <<"C", "u", "s", "t", "o", "m", " ", "W", "o", "r", "k", "f", "l", "o",
      "w">>
s_best_effort == <<"b", "e", "s", "t", "_", "e", "f", "f", "o", "r", "t">>
s_null == <<"n", "u", "l", "l">>
s_true == <<"t", "r", "u", "e">>
s_false == <<"f", "a", "l", "s", "e">>
\* the character `, which a string of TLA+ cannot hold
GRAVE == "grave"
FENCE_JSON == <<GRAVE, GRAVE, GRAVE, "j", "s", "o", "n">>
FENCE == <<GRAVE, GRAVE, GRAVE>>

\* what .get of a value that is no dict, and .strip of None, raise
s_AttributeError ==
    <<"A", "t", "t", "r", "i", "b", "u", "t", "e", "E", "r", "r", "o", "r">>

\* f"wf_{int(time.time())}", at the time of the call
s_wf_now == <<"w", "f", "_", "0">>

\* the default of WorkflowStep's retry_count
DefaultRetryCount == 3

\* a list, and an object of a type that json cannot encode (a set, a datetime)
ListV(items) == [t |-> "list", v |-> items]
ObjV == [t |-> "obj"]

\* Workflow.__init__ and add_step
Workflow(workflow_id, name, description) ==
    [workflow_id |-> workflow_id, name |-> name, description |-> description,
     steps |-> <<>>, status |-> "pending", context |-> <<>>,
     current_step_index |-> 0]
add_step(workflow, step) == [workflow EXCEPT !.steps = Append(@, step)]

\* json.dumps(val) returns: every leaf has an encoder
RECURSIVE JsonSerialisable(_)
JsonSerialisable(val) ==
    CASE val.t = "obj" -> FALSE
      [] val.t = "dict" -> \A n \in 1..Len(val.v) : JsonSerialisable(val.v[n][2])
      [] val.t = "list" -> \A n \in 1..Len(val.v) : JsonSerialisable(val.v[n])
      [] OTHER -> TRUE

\* s.strip(), for the blank and the newline
StripWs(s) ==
    LET inked == {p \in 1..Len(s) : s[p] \notin {" ", "\n"}} IN
    IF inked = {} THEN <<>>
    ELSE SubSeq(s, CHOOSE p \in inked : \A r \in inked : p <= r,
                   CHOOSE p \in inked : \A r \in inked : r <= p)

\* lines 198-201: the text inside a fenced code block, when there is one
CleanUp(text) ==
    IF Contains(text, FENCE_JSON)
    THEN StripWs(Before(Before(After(text, FENCE_JSON), FENCE_JSON), FENCE))
    ELSE IF Contains(text, FENCE)
    THEN StripWs(Before(Before(After(text, FENCE), FENCE), FENCE))
    ELSE text

\* json.loads, for texts made of objects, arrays, strings without escapes,
\* true, false and null.  A parse from position p gives the value and the
\* position after it, or fails.
NoParse == [ok |-> FALSE]
Parsed(val, p) == [ok |-> TRUE, val |-> val, pos |-> p]

RECURSIVE SkipSpace(_, _)
SkipSpace(s, p) ==
    IF p <= Len(s) /\ s[p] \in {" ", "\n"} THEN SkipSpace(s, p + 1) ELSE p

\* the position of the first '"' at or after p, or 0
RECURSIVE QuoteEnd(_, _)
QuoteEnd(s, p) ==
    IF p > Len(s) THEN 0
    ELSE IF s[p] = "\"" THEN p
    ELSE QuoteEnd(s, p + 1)

At(s, p, word) == p + Len(word) - 1 <= Len(s) /\ SubSeq(s, p, p + Len(word) - 1) = word

RECURSIVE ParseValue(_, _), ParseMembers(_, _, _), ParseElements(_, _, _)
ParseValue(s, p0) ==
    LET p == SkipSpace(s, p0) IN
    IF p > Len(s) THEN NoParse
    ELSE IF s[p] = "\""
    THEN LET e == QuoteEnd(s, p + 1) IN
         IF e = 0 THEN NoParse ELSE Parsed(StrV(SubSeq(s, p + 1, e - 1)), e + 1)
    ELSE IF s[p] = "{"
    THEN LET n == SkipSpace(s, p + 1) IN
         IF n <= Len(s) /\ s[n] = "}" THEN Parsed(DictV(<<>>), n + 1)
         ELSE ParseMembers(s, n, <<>>)
    ELSE IF s[p] = "["
    THEN LET n == SkipSpace(s, p + 1) IN
         IF n <= Len(s) /\ s[n] = "]" THEN Parsed(ListV(<<>>), n + 1)
         ELSE ParseElements(s, n, <<>>)
    ELSE IF At(s, p, s_null) THEN Parsed(NoneV, p + Len(s_null))
    ELSE IF At(s, p, s_true) THEN Parsed(BoolV(TRUE), p + Len(s_true))
    ELSE IF At(s, p, s_false) THEN Parsed(BoolV(FALSE), p + Len(s_false))
    ELSE NoParse

\* "key": value pairs up to the closing brace; a later pair with the same key
\* replaces the value
ParseMembers(s, p, acc) ==
    IF p > Len(s) \/ s[p] # "\"" THEN NoParse
    ELSE LET k == ParseValue(s, p) IN
         IF ~k.ok THEN NoParse
         ELSE LET c == SkipSpace(s, k.pos) IN
              IF c > Len(s) \/ s[c] # ":" THEN NoParse
              ELSE LET val == ParseValue(s, c + 1) IN
                   IF ~val.ok THEN NoParse
                   ELSE LET d == SkipSpace(s, val.pos)
                            items == Put(acc, k.val.v, val.val)
                        IN IF d > Len(s) THEN NoParse
                           ELSE IF s[d] = "}" THEN Parsed(DictV(items), d + 1)
                           ELSE IF s[d] = ","
                           THEN ParseMembers(s, SkipSpace(s, d + 1), items)
                           ELSE NoParse

ParseElements(s, p, acc) ==
    LET val == ParseValue(s, p) IN
    IF ~val.ok THEN NoParse
    ELSE LET d == SkipSpace(s, val.pos) IN
         IF d > Len(s) THEN NoParse
         ELSE IF s[d] = "]" THEN Parsed(ListV(Append(acc, val.val)), d + 1)
         ELSE IF s[d] = "," THEN ParseElements(s, d + 1, Append(acc, val.val))
         ELSE NoParse

json_loads(s) ==
    LET r == ParseValue(s, 1) IN
    IF r.ok /\ SkipSpace(s, r.pos) > Len(s) THEN Returns(r.val)
    ELSE Raises(<<"J", "S", "O", "N", "D", "e", "c", "o", "d", "e", "E", "r", "r", "o", "r">>)

\* "for step_data in ...": what the loop goes over, or a TypeError
Iterated(val) ==
    CASE val.t = "list" -> Returns(val.v)
      [] val.t = "dict" -> Returns([n \in 1..Len(val.v) |-> StrV(val.v[n][1])])
      [] val.t = "str" -> Returns([n \in 1..Len(val.v) |-> StrV(<<val.v[n]>>)])
      [] OTHER -> Raises(<<"T", "y", "p", "e", "E", "r", "r", "o", "r">>)

\* hash(val) returns: a list and a dict have no hash
Hashable(val) == val.t \notin {"list", "dict"}

\* lines 213-221; the texts of this model give strings for step_id, action
\* and tool, and a dict or null for params
RECURSIVE AddSteps(_, _)
AddSteps(workflow, items) ==
    IF Len(items) = 0 THEN Returns(workflow)
    ELSE LET step_data == Head(items) IN
         IF ~IsDict(step_data) THEN Raises(s_AttributeError)
         ELSE LET params == Get(step_data.v, s_params, DictV(<<>>))
                  step == WorkflowStep(
                      Get(step_data.v, s_step_id,
                          StrV(s_step_ \o Decimal(Len(workflow.steps) + 1))).v,
                      Get(step_data.v, s_action, StrV(<<>>)).v,
                      Get(step_data.v, s_tool, StrV(<<>>)).v,
                      IF Truthy(params) THEN params.v ELSE <<>>,
                      Get(step_data.v, s_condition, NoneV),
                      DefaultRetryCount)
              IN AddSteps(add_step(workflow, step), Tail(items))

\* lines 193-226, the try block: the workflow, or the exception it ends with.
\* response is what the model gave: Raises(...) when get_best_model or
\* generate_content raised, Returns(text) for a response with this text.
TryCreate(task, response) ==
    IF response.kind = "raise" THEN response
    ELSE IF ~IsStr(response.value) THEN Raises(s_AttributeError)
    ELSE LET loaded == json_loads(CleanUp(StripWs(response.value.v))) IN
         IF loaded.kind = "raise" THEN loaded
         ELSE LET data == loaded.value IN
              IF ~IsDict(data) THEN Raises(s_AttributeError)
              ELSE LET workflow == Workflow(
                           Get(data.v, s_workflow_id, StrV(s_wf_now)),
                           Get(data.v, s_name, StrV(s_Custom_Workflow)),
                           Get(data.v, s_description, StrV(<<>>)))
                       items == Iterated(Get(data.v, s_steps, ListV(<<>>)))
                   IN IF items.kind = "raise" THEN items
                      ELSE LET added == AddSteps(workflow, items.value) IN
                           IF added.kind = "raise" THEN added
                           ELSE IF ~Hashable(workflow.workflow_id)
                           THEN Raises(<<"T", "y", "p", "e", "E", "r", "r", "o", "r">>)
                           ELSE added

\* a variant of FallbackWorkflow whose step names a tool "best_effort"
FallbackBestEffort(task) ==
    add_step(Workflow(StrV(s_wf_now), StrV(s_Simple_Task), StrV(task)),
             WorkflowStep(s_step_ \o <<"1">>, task, s_best_effort,
                          << <<s_task, StrV(task)>> >>, NoneV, DefaultRetryCount))

\* lines 228-242: the simple workflow
FallbackWorkflow(task) ==
    add_step(Workflow(StrV(s_wf_now), StrV(s_Simple_Task), StrV(task)),
             WorkflowStep(s_step_ \o <<"1">>, task, s_system_command,
                          << <<s_task, StrV(task)>> >>, NoneV, DefaultRetryCount))

\* create_workflow_from_task(task, context): the prompt is built outside the
\* try block, with json.dumps(context or {}), then the try block runs and
\* any exception of it gives the simple workflow
create_workflow_from_task(task, context, response) ==
    IF ~JsonSerialisable(IF Truthy(context) THEN context ELSE DictV(<<>>))
    THEN Raises(<<"T", "y", "p", "e", "E", "r", "r", "o", "r">>)
    ELSE LET created == TryCreate(task, response) IN
         IF created.kind = "raise" THEN Returns(FallbackWorkflow(task))
         ELSE created

\* what the model gives: an exception of get_best_model or generate_content,
\* a response without text, or a response with one of these texts
ModelResponses ==
    {Raises(<<"u", "n", "a", "v", "a", "i", "l", "a", "b", "l", "e">>), Returns(NoneV)}
    \cup {Returns(StrV(text)) : text \in {
         \* {"steps": []}
         <<"{", "\"", "s", "t", "e", "p", "s", "\"", ":", " ", "[", "]", "}">>,
         \* {}
         <<"{", "}">>,
         \* {"steps": [{"tool": "system_command"}]}
         <<"{", "\"", "s", "t", "e", "p", "s", "\"", ":", " ", "[", "{", "\"",
           "t", "o", "o", "l", "\"", ":", " ", "\"", "s", "y", "s", "t",
           "e", "m", "_", "c", "o", "m", "m", "a", "n", "d", "\"", "}",
           "]", "}">>,
         \* Sure\n(fence)json\n{"steps": [{"step_id": "a", "action": "go", "tool": "echo", "params": {"task": "go"}}]}\n(fence)
         <<"S", "u", "r", "e", "\n", GRAVE, GRAVE, GRAVE, "j", "s", "o", "n", "\n", "{",
           "\"", "s", "t", "e", "p", "s", "\"", ":", " ", "[", "{", "\"",
           "s", "t", "e", "p", "_", "i", "d", "\"", ":", " ", "\"", "a",
           "\"", ",", " ", "\"", "a", "c", "t", "i", "o", "n", "\"", ":",
           " ", "\"", "g", "o", "\"", ",", " ", "\"", "t", "o", "o", "l",
           "\"", ":", " ", "\"", "e", "c", "h", "o", "\"", ",", " ",
           "\"", "p", "a", "r", "a", "m", "s", "\"", ":", " ", "{", "\"",
           "t", "a", "s", "k", "\"", ":", " ", "\"", "g", "o", "\"", "}",
           "}", "]", "}", "\n", GRAVE, GRAVE, GRAVE>>,
         \* []
         <<"[", "]">>,
         \* {"steps": null}
         <<"{", "\"", "s", "t", "e", "p", "s", "\"", ":", " ", "n", "u", "l", "l",
           "}">>,
         \* {"steps": ["x"]}
         <<"{", "\"", "s", "t", "e", "p", "s", "\"", ":", " ", "[", "\"", "x",
           "\"", "]", "}">>,
         \* Sure!
         <<"S", "u", "r", "e", "!">>,
         \* 
         <<>>,
         \* (fence)\n{}\n(fence)
         <<GRAVE, GRAVE, GRAVE, "\n", "{", "}", "\n", GRAVE, GRAVE, GRAVE>>,
         \* {"workflow_id": [], "steps": [{"tool": "echo"}]}
         <<"{", "\"", "w", "o", "r", "k", "f", "l", "o", "w", "_", "i", "d", "\"",
           ":", " ", "[", "]", ",", " ", "\"", "s", "t", "e", "p", "s",
           "\"", ":", " ", "[", "{", "\"", "t", "o", "o", "l", "\"", ":",
           " ", "\"", "e", "c", "h", "o", "\"", "}", "]", "}">>,
         \* {"name": "n", "steps": [{"params": null}, {"condition": "if x"}]}
         <<"{", "\"", "n", "a", "m", "e", "\"", ":", " ", "\"", "n", "\"", ",",
           " ", "\"", "s", "t", "e", "p", "s", "\"", ":", " ", "[", "{",
           "\"", "p", "a", "r", "a", "m", "s", "\"", ":", " ", "n", "u",
           "l", "l", "}", ",", " ", "{", "\"", "c", "o", "n", "d", "i",
           "t", "i", "o", "n", "\"", ":", " ", "\"", "i", "f", " ", "x",
           "\"", "}", "]", "}">>,
         \* {"steps": {}}
         <<"{", "\"", "s", "t", "e", "p", "s", "\"", ":", " ", "{", "}", "}">>,
         \* {"steps": [{"tool": "echo"}],}
         <<"{", "\"", "s", "t", "e", "p", "s", "\"", ":", " ", "[", "{", "\"",
           "t", "o", "o", "l", "\"", ":", " ", "\"", "e", "c", "h", "o",
           "\"", "}", "]", ",", "}">>,
         \* true
         <<"t", "r", "u", "e">> }}

\* the tasks: a text, and the empty text
Tasks == {s_go, <<>>}

\* the context the caller gives: none, empty, one that json can encode and
\* one that it cannot
GivenContexts ==
    {NoneV, DictV(<<>>), DictV(<< <<s_note, StrV(s_go)>> >>),
     DictV(<< <<s_note, ObjV>> >>)}

(***************************************************************************)
(* State.  steps, status, context and current_step_index are the fields of *)
(* the Workflow; tool_registry is the engine's; pc, i and attempt are the  *)
(* position of execute_workflow and its loop variables; report is what the *)
(* last call returned.  The others record, for the call in progress, what  *)
(* happened: runs counts the calls of execute_workflow, visited holds the  *)
(* indexes the for loop reached, cond_false those whose condition was      *)
(* false, calls[n] lists how each call of step n's tool ended, attempts0   *)
(* holds each step's attempts when the call began, tool_call is the last   *)
(* call of a tool function, and writer[key] is the index of the step that  *)
(* last wrote the context key.                                             *)
(***************************************************************************)
VARIABLES steps, status, context, current_step_index, tool_registry,
          pc, i, attempt, report,
          runs, visited, cond_false, calls, attempts0, tool_call, writer

\* A call of create_workflow_from_task: its arguments task and given_context,
\* the model's response, and in compiled what the call gave (NoReport before).
VARIABLES task, given_context, response, compiled

\* whether a caller has asked for the running plan to be paused
VARIABLES pause_requested

\* Two plans executed by one engine, each by its own call of
\* execute_workflow: the variables above are those of the call that is
\* running, for the plan current; parked holds the plan and the call that
\* wait; contexts[o] is what the dict o holds, for the dicts that are not
\* the context of the running call.
VARIABLES current, parked, contexts

\* sleeps[n] lists, for the call in progress, how long each time.sleep of
\* step n's retry loop lasted, in seconds
VARIABLES sleeps

\* A call of _evaluate_condition or of _resolve_params on its own: the text
\* expression (a condition, or a value of params), the context bindings it is
\* called with, and in evaluated what the call returned (NoReport before).
VARIABLES expression, bindings, evaluated

pair_vars == <<current, parked, contexts>>
pure_vars == <<expression, bindings, evaluated>>

\* the variables that execute_workflow does not touch
rest_vars ==
    <<task, given_context, response, compiled, pause_requested, pair_vars, pure_vars>>

vars == <<steps, status, context, current_step_index, tool_registry,
          pc, i, attempt, report,
          runs, visited, cond_false, calls, attempts0, tool_call, writer, sleeps,
          rest_vars>>

NoReport == [kind |-> "none"]
NoCall == [index |-> -1, params |-> <<>>, context |-> <<>>]

\* a variant of ContextObject with one dict for all workflows (a dict of the
\* class)
SharedContextObject(p) == "A"

\* the dict that Workflow.__init__ makes the context of plan p:
\* "self.context = {}", a new dict for each workflow
ContextObject(p) == p

\* a workflow as Workflow.__init__ leaves it, and a call not yet begun
Fresh(plan) ==
    [steps |-> plan, status |-> "pending", context |-> <<>>,
     current_step_index |-> 0, pc |-> "idle", i |-> 0, attempt |-> 0,
     report |-> NoReport, runs |-> 0, visited |-> {}, cond_false |-> {},
     calls |-> [n \in 1..Len(plan) |-> <<>>],
     attempts0 |-> [n \in 1..Len(plan) |-> 0],
     tool_call |-> NoCall, writer |-> <<>>,
     sleeps |-> [n \in 1..Len(plan) |-> <<>>]]

\* one plan only
NoPair ==
    /\ current = "A"
    /\ parked = Fresh(<<>>)
    /\ contexts = [o \in {"A", "B"} |-> <<>>]

\* create_workflow_from_task is not called
NotCompiling ==
    /\ task = <<>>
    /\ given_context = NoneV
    /\ response = Returns(NoneV)
    /\ compiled = NoReport

\* _evaluate_condition and _resolve_params are not called on their own
NoPureCall ==
    /\ expression = <<>>
    /\ bindings = <<>>
    /\ evaluated = NoReport

\* Workflow.__init__ for a plan of Plans, and AtlasWorkflowEngine.__init__
Init ==
    /\ steps \in Plans
    /\ status = "pending"
    /\ context = <<>>
    /\ current_step_index = 0
    /\ tool_registry = _register_default_tools
    /\ pc = "idle"
    /\ i = 0
    /\ attempt = 0
    /\ report = NoReport
    /\ runs = 0
    /\ visited = {}
    /\ cond_false = {}
    /\ calls = [n \in 1..Len(steps) |-> <<>>]
    /\ attempts0 = [n \in 1..Len(steps) |-> 0]
    /\ tool_call = NoCall
    /\ writer = <<>>
    /\ sleeps = [n \in 1..Len(steps) |-> <<>>]
    /\ NotCompiling
    /\ NoPureCall
    /\ pause_requested = FALSE
    /\ NoPair

\* the step the for loop is at (i counts from 0, as enumerate does)
Cur == steps[i + 1]

SetStep(field, val) == [steps EXCEPT ![i + 1][field] = val]

(***************************************************************************)
(* execute_workflow, lines 248-251: the call begins                        *)
(***************************************************************************)
Execute ==
    /\ pc \in {"idle", "done"}
    /\ runs < MaxRuns
    /\ status' = "running"
    /\ pc' = "for"
    /\ i' = 0
    /\ attempt' = 0
    /\ runs' = runs + 1
    /\ visited' = {}
    /\ cond_false' = {}
    /\ calls' = [n \in 1..Len(steps) |-> <<>>]
    /\ attempts0' = [n \in 1..Len(steps) |-> steps[n].attempts]
    /\ tool_call' = NoCall
    /\ sleeps' = [n \in 1..Len(steps) |-> <<>>]
    /\ UNCHANGED <<steps, context, current_step_index, tool_registry, report, writer>>
    /\ UNCHANGED rest_vars

\* "step.condition and not self._evaluate_condition(...)"
ConditionNotMet(step, ctx) ==
    Truthy(step.condition) /\ ~Truthy(_evaluate_condition(step.condition.v, ctx))

(***************************************************************************)
(* lines 254-270: one turn of the for loop, up to the retry loop           *)
(***************************************************************************)
\* the steps are exhausted
ForEnd ==
    /\ pc = "for"
    /\ i >= Len(steps)
    /\ pc' = "return"
    /\ UNCHANGED <<steps, status, context, current_step_index, tool_registry,
                   i, attempt, report,
                   runs, visited, cond_false, calls, attempts0, tool_call, writer,
                   sleeps>>
    /\ UNCHANGED rest_vars

\* a variant of ForSkip that fails the plan at the skipped step
ForSkipHalts ==
    /\ pc = "for"
    /\ i < Len(steps)
    /\ ConditionNotMet(Cur, context)
    /\ current_step_index' = i
    /\ steps' = SetStep("status", "skipped")
    /\ status' = "failed"
    /\ pc' = "return"
    /\ visited' = visited \cup {i}
    /\ cond_false' = cond_false \cup {i}
    /\ UNCHANGED <<context, tool_registry, i, attempt, report,
                   runs, calls, attempts0, tool_call, writer, sleeps>>
    /\ UNCHANGED rest_vars

\* the condition is not met: the step is skipped
ForSkip ==
    /\ pc = "for"
    /\ i < Len(steps)
    /\ ConditionNotMet(Cur, context)
    /\ current_step_index' = i
    /\ steps' = SetStep("status", "skipped")
    /\ i' = i + 1
    /\ visited' = visited \cup {i}
    /\ cond_false' = cond_false \cup {i}
    /\ UNCHANGED <<status, context, tool_registry, pc, attempt, report,
                   runs, calls, attempts0, tool_call, writer, sleeps>>
    /\ UNCHANGED rest_vars

\* the step starts; update_callback, when given, returns or raises
ForRun ==
    /\ pc = "for"
    /\ i < Len(steps)
    /\ ~ConditionNotMet(Cur, context)
    /\ current_step_index' = i
    /\ steps' = SetStep("status", "running")
    /\ visited' = visited \cup {i}
    /\ attempt' = 0
    /\ \/ pc' = "retry"
       \/ pc' = "except"
    /\ UNCHANGED <<status, context, tool_registry, i, report,
                   runs, cond_false, calls, attempts0, tool_call, writer, sleeps>>
    /\ UNCHANGED rest_vars

(***************************************************************************)
(* lines 273-309: one attempt of the retry loop                            *)
(***************************************************************************)
\* "result and result.get('success', False)"
Succeeded(o) ==
    /\ o.kind = "return"
    /\ Truthy(o.value)
    /\ IsDict(o.value)
    /\ Truthy(Get(o.value.v, s_success, BoolV(FALSE)))

\* a variant of ErrorOf that records "Unknown error" for every failure
ErrorOfGeneric(o) == s_Unknown_error

\* str(e) of the exception the attempt ends with
ErrorOf(o) ==
    IF o.kind = "raise" THEN o.value.v
    ELSE IF Truthy(o.value) /\ IsDict(o.value)
         THEN Str(Get(o.value.v, s_error, StrV(s_Unknown_error)))
    ELSE s_No_result

\* a variant of StoreResult that writes the rolling keys only
StoreRollingOnly(ctx, step_id, result) ==
    Put(Put(ctx, s_prev_result, result), s_last_success, result)

\* lines 285-287
StoreResult(ctx, step_id, result) ==
    Put(Put(Put(ctx, step_id, result), s_prev_result, result), s_last_success, result)

\* "attempt < step.retry_count - 1": another attempt follows, after the sleep
WillRetry(att, retry_count) == att < retry_count - 1

\* how the call of the tool is recorded
OutcomeKind(o) ==
    IF Succeeded(o) THEN "success"
    ELSE IF o.kind = "raise" THEN "raise"
    ELSE IF o.value = NoneV THEN "none"
    ELSE "false"

\* a variant of HaltPlan that goes on with the next step
HaltPlanNoBreak ==
    /\ status' = "failed"
    /\ pc' = "for"
    /\ i' = i + 1

\* lines 306-309: "if not success", the plan fails and the for loop is left
HaltPlan ==
    /\ status' = "failed"
    /\ pc' = "return"
    /\ i' = i

\* a variant of AttemptNumber that counts from 2
AttemptNumberFromTwo(att) == att + 2

\* line 274: "step.attempts = attempt + 1"
AttemptNumber(att) == att + 1

\* a variant of BackoffDelay that doubles once more
BackoffDelayDoubled(att) == 2 ^ (att + 1)

\* line 301: the sleep after the failed attempt att lasts 2 ** att seconds
BackoffDelay(att) == 2 ^ att

\* a variant of BreakOnSuccess that goes on with the attempts that are left
ContinueOnSuccess ==
    /\ attempt' = attempt + 1
    /\ IF WillRetry(attempt, Cur.retry_count)
       THEN UNCHANGED <<pc, i>>
       ELSE pc' = "for" /\ i' = i + 1

\* lines 290-291: "success = True; break", the retry loop is left and the for
\* loop goes to the next step
BreakOnSuccess ==
    /\ pc' = "for"
    /\ i' = i + 1
    /\ UNCHANGED attempt

Attempt ==
    /\ pc = "retry"
    /\ attempt < Cur.retry_count
    /\ \E o \in _execute_step(Cur, tool_registry, context) :
         LET left == ResolveEffect(Cur.params, context) IN
         /\ calls' = [calls EXCEPT ![i + 1] =
                         IF Cur.tool \in DOMAIN tool_registry
                         THEN Append(@, OutcomeKind(o)) ELSE @]
         /\ tool_call' = IF Cur.tool \in DOMAIN tool_registry
                         THEN [index |-> i,
                               params |-> ResolveEffect(Cur.params, context).resolved,
                               context |-> context]
                         ELSE tool_call
         /\ IF Succeeded(o)
            THEN /\ steps' = [steps EXCEPT ![i + 1].params = left.params,
                                           ![i + 1].attempts = AttemptNumber(attempt),
                                           ![i + 1].result = o.value,
                                           ![i + 1].status = "success"]
                 /\ context' = StoreResult(left.context, Cur.step_id, o.value)
                 /\ writer' = StoreResult(writer, Cur.step_id, i)
                 /\ BreakOnSuccess
                 /\ UNCHANGED <<status, sleeps>>
            ELSE /\ context' = left.context
                 /\ UNCHANGED writer
                 /\ attempt' = attempt + 1
                 /\ IF WillRetry(attempt, Cur.retry_count)
                    THEN /\ steps' = [steps EXCEPT ![i + 1].params = left.params,
                                                   ![i + 1].attempts = AttemptNumber(attempt),
                                                   ![i + 1].error = StrV(ErrorOf(o))]
                         /\ sleeps' = [sleeps EXCEPT ![i + 1] =
                                          Append(@, BackoffDelay(attempt))]
                         /\ UNCHANGED <<status, pc, i>>
                    ELSE /\ steps' = [steps EXCEPT ![i + 1].params = left.params,
                                                   ![i + 1].attempts = AttemptNumber(attempt),
                                                   ![i + 1].error = StrV(ErrorOf(o)),
                                                   ![i + 1].status = "failed"]
                         /\ UNCHANGED sleeps
                         /\ HaltPlan
    /\ UNCHANGED <<current_step_index, tool_registry, report,
                   runs, visited, cond_false, attempts0>>
    /\ UNCHANGED rest_vars

(***************************************************************************)
(* lines 311-323: the plan is completed unless it failed; the report       *)
(***************************************************************************)
\* a variant of Return that reports every plan completed
ReturnCompleted ==
    /\ pc = "return"
    /\ status' = "completed"
    /\ report' = [kind |-> "report",
                  keys |-> {"success", "workflow", "final_result", "execution_time"},
                  success |-> TRUE,
                  final_result |-> Get(context, s_last_success, NoneV),
                  current_step |-> current_step_index]
    /\ pc' = "done"
    /\ UNCHANGED <<steps, context, current_step_index, tool_registry, i, attempt,
                   runs, visited, cond_false, calls, attempts0, tool_call, writer,
                   sleeps>>
    /\ UNCHANGED rest_vars

Return ==
    /\ pc = "return"
    /\ status' = IF status # "failed" THEN "completed" ELSE status
    /\ report' = [kind |-> "report",
                  keys |-> {"success", "workflow", "final_result", "execution_time"},
                  success |-> (status' = "completed"),
                  final_result |-> Get(context, s_last_success, NoneV),
                  current_step |-> current_step_index]
    /\ pc' = "done"
    /\ UNCHANGED <<steps, context, current_step_index, tool_registry, i, attempt,
                   runs, visited, cond_false, calls, attempts0, tool_call, writer,
                   sleeps>>
    /\ UNCHANGED rest_vars

(***************************************************************************)
(* lines 325-334: an exception left the loop                               *)
(***************************************************************************)
Except ==
    /\ pc = "except"
    /\ status' = "failed"
    /\ report' = [kind |-> "report",
                  keys |-> {"success", "error", "workflow"},
                  success |-> FALSE,
                  final_result |-> NoneV,
                  current_step |-> current_step_index]
    /\ pc' = "done"
    /\ UNCHANGED <<steps, context, current_step_index, tool_registry, i, attempt,
                   runs, visited, cond_false, calls, attempts0, tool_call, writer,
                   sleeps>>
    /\ UNCHANGED rest_vars

(***************************************************************************)
(* create_workflow_from_task, called with one of Tasks, of GivenContexts    *)
(* and of ModelResponses                                                   *)
(***************************************************************************)
CompileInit ==
    /\ steps = <<>>
    /\ status = "pending"
    /\ context = <<>>
    /\ current_step_index = 0
    /\ tool_registry = _register_default_tools
    /\ pc = "idle"
    /\ i = 0
    /\ attempt = 0
    /\ report = NoReport
    /\ runs = 0
    /\ visited = {}
    /\ cond_false = {}
    /\ calls = <<>>
    /\ attempts0 = <<>>
    /\ tool_call = NoCall
    /\ writer = <<>>
    /\ task \in Tasks
    /\ given_context \in GivenContexts
    /\ response \in ModelResponses
    /\ compiled = NoReport
    /\ sleeps = <<>>
    /\ NoPureCall
    /\ pause_requested = FALSE
    /\ NoPair

Compile ==
    /\ compiled = NoReport
    /\ compiled' = create_workflow_from_task(task, given_context, response)
    /\ UNCHANGED <<steps, status, context, current_step_index, tool_registry,
                   pc, i, attempt, report,
                   runs, visited, cond_false, calls, attempts0, tool_call, writer,
                   sleeps, task, given_context, response, pause_requested,
                   pair_vars, pure_vars>>

CompileSpec == CompileInit /\ [][Compile]_vars

(***************************************************************************)
(* A caller asks for the running plan to be paused.  The engine has no     *)
(* entry point and no flag for this (WorkflowStatus.PAUSED is never        *)
(* assigned and nothing is read at a step boundary): the request is kept   *)
(* here, where execute_workflow does not look.                             *)
(***************************************************************************)
RequestPause ==
    /\ status = "running"
    /\ pc \in {"for", "retry"}
    /\ ~pause_requested
    /\ pause_requested' = TRUE
    /\ UNCHANGED <<steps, status, context, current_step_index, tool_registry,
                   pc, i, attempt, report,
                   runs, visited, cond_false, calls, attempts0, tool_call, writer,
                   sleeps, task, given_context, response, compiled, pair_vars,
                   pure_vars>>

(***************************************************************************)
(* Two plans and one engine.  The calls of execute_workflow interleave:    *)
(* Switch parks the running call and lets the other one run.               *)
(***************************************************************************)
\* the plans of the pair: s1 then s2, s3 then s2, and s1 then s3, with
\* retry_count 1
PairPlans ==
    {plan \in [1..2 -> StepPool(1)] :
        /\ plan[1].step_id \in {s_s1, s_s3}
        /\ plan[2].step_id \in {s_s2, s_s3}
        /\ UniqueIds(plan)}

PairInit ==
    /\ steps \in PairPlans
    /\ status = "pending"
    /\ context = <<>>
    /\ current_step_index = 0
    /\ tool_registry = _register_default_tools
    /\ pc = "idle"
    /\ i = 0
    /\ attempt = 0
    /\ report = NoReport
    /\ runs = 0
    /\ visited = {}
    /\ cond_false = {}
    /\ calls = [n \in 1..Len(steps) |-> <<>>]
    /\ attempts0 = [n \in 1..Len(steps) |-> 0]
    /\ tool_call = NoCall
    /\ writer = <<>>
    /\ sleeps = [n \in 1..Len(steps) |-> <<>>]
    /\ NotCompiling
    /\ NoPureCall
    /\ pause_requested = FALSE
    /\ current = "A"
    /\ \E plan \in PairPlans : parked = Fresh(plan)
    /\ contexts = [o \in {"A", "B"} |-> <<>>]

Other(p) == IF p = "A" THEN "B" ELSE "A"

\* what the dict o holds
Content(o) == IF o = ContextObject(current) THEN context ELSE contexts[o]

Switch ==
    /\ current' = Other(current)
    /\ parked' = [steps |-> steps, status |-> status, context |-> context,
                  current_step_index |-> current_step_index, pc |-> pc, i |-> i,
                  attempt |-> attempt, report |-> report, runs |-> runs,
                  visited |-> visited, cond_false |-> cond_false, calls |-> calls,
                  attempts0 |-> attempts0, tool_call |-> tool_call,
                  writer |-> writer, sleeps |-> sleeps]
    /\ contexts' = [contexts EXCEPT ![ContextObject(current)] = context]
    /\ steps' = parked.steps
    /\ status' = parked.status
    /\ context' = contexts'[ContextObject(Other(current))]
    /\ current_step_index' = parked.current_step_index
    /\ pc' = parked.pc
    /\ i' = parked.i
    /\ attempt' = parked.attempt
    /\ report' = parked.report
    /\ runs' = parked.runs
    /\ visited' = parked.visited
    /\ cond_false' = parked.cond_false
    /\ calls' = parked.calls
    /\ attempts0' = parked.attempts0
    /\ tool_call' = parked.tool_call
    /\ writer' = parked.writer
    /\ sleeps' = parked.sleeps
    /\ UNCHANGED <<tool_registry, task, given_context, response, compiled,
                   pause_requested, pure_vars>>

(***************************************************************************)
(* _evaluate_condition and _resolve_params called on their own, with one   *)
(* of PureCases: a condition or a value of params, and a context.          *)
(***************************************************************************)
\* The calls made.  Conditions "ref op value", with and without the leading
\* "if ", in a context that holds 3, one that holds 7 and the empty one: ref
\* is s1.data.count, s1.success, s1.items, s1.data, s2.data.count or qty,
\* op is > or ==, value is 1 or 5; CountContext(n) is the context after a
\* step s1 whose result holds n at data.count and at items, with n also under
\* the plain key qty.  Values of params with placeholders of
\* the keys b, c and d, in a context where b holds a text that looks like
\* the placeholder of c, and in one where it holds a plain text.
PureCases ==
    LET CountContext(n) ==
            << <<s_s1, DictV(<< <<s_success, BoolV(TRUE)>>,
                                <<s_data, DictV(<< <<<<"c", "o", "u", "n", "t">>, IntV(n)>> >>)>>,
                                <<<<"i", "t", "e", "m", "s">>, IntV(n)>> >>)>>,
               <<<<"q", "t", "y">>, IntV(n)>> >>
        refs == {s_s1 \o <<".">> \o s_data \o <<".", "c", "o", "u", "n", "t">>,
                 s_s1 \o <<".">> \o s_success,
                 s_s1 \o <<".", "i", "t", "e", "m", "s">>,
                 s_s1 \o <<".">> \o s_data,
                 s_s2 \o <<".">> \o s_data \o <<".", "c", "o", "u", "n", "t">>,
                 <<"q", "t", "y">>}
        conditions == {pre \o ref \o <<" ">> \o op \o <<" ">> \o digit :
                          pre \in {<<>>, s_if}, ref \in refs,
                          op \in {<<">">>, <<"=", "=">>},
                          digit \in {<<"1">>, <<"5">>}}
        b == OPEN \o <<"b">> \o CLOSE
        c == OPEN \o <<"c">> \o CLOSE
        d == OPEN \o <<"d">> \o CLOSE
        templates == {b \o c, c \o b, b \o <<" ">> \o b, <<"x">> \o b, d \o c, c}
        texts == {<< <<<<"b">>, StrV(c)>>, <<<<"c">>, StrV(<<"Z">>)>> >>,
                  << <<<<"b">>, StrV(<<"Q">>)>>, <<<<"c">>, StrV(<<"Z">>)>> >>}
    IN (conditions \X {CountContext(3), CountContext(7), <<>>})
       \cup (templates \X texts)

PureInit ==
    /\ steps = <<>>
    /\ status = "pending"
    /\ context = <<>>
    /\ current_step_index = 0
    /\ tool_registry = _register_default_tools
    /\ pc = "idle"
    /\ i = 0
    /\ attempt = 0
    /\ report = NoReport
    /\ runs = 0
    /\ visited = {}
    /\ cond_false = {}
    /\ calls = <<>>
    /\ attempts0 = <<>>
    /\ tool_call = NoCall
    /\ writer = <<>>
    /\ sleeps = <<>>
    /\ NotCompiling
    /\ \E case \in PureCases : expression = case[1] /\ bindings = case[2]
    /\ evaluated = NoReport
    /\ pause_requested = FALSE
    /\ NoPair

\* self._evaluate_condition(expression, bindings)
EvaluateCondition ==
    /\ evaluated = NoReport
    /\ evaluated' = [kind |-> "condition",
                     value |-> _evaluate_condition(expression, bindings)]
    /\ UNCHANGED <<steps, status, context, current_step_index, tool_registry,
                   pc, i, attempt, report,
                   runs, visited, cond_false, calls, attempts0, tool_call, writer,
                   sleeps, task, given_context, response, compiled,
                   pause_requested, pair_vars, expression, bindings>>

\* self._resolve_params({"task": expression}, bindings)
ResolveParams ==
    /\ evaluated = NoReport
    /\ evaluated' = [kind |-> "params",
                     value |-> _resolve_params(<< <<s_task, StrV(expression)>> >>,
                                               bindings)]
    /\ UNCHANGED <<steps, status, context, current_step_index, tool_registry,
                   pc, i, attempt, report,
                   runs, visited, cond_false, calls, attempts0, tool_call, writer,
                   sleeps, task, given_context, response, compiled,
                   pause_requested, pair_vars, expression, bindings>>

PureSpec == PureInit /\ [][EvaluateCondition \/ ResolveParams]_vars

Next == Execute \/ ForEnd \/ ForSkip \/ ForRun \/ Attempt \/ Return \/ Except

Spec == Init /\ [][Next]_vars

\* two calls of execute_workflow, interleaved; each plan is executed up to
\* MaxPairRuns times
PairExecute == Execute /\ runs' <= MaxPairRuns

PairNext ==
    PairExecute \/ ForEnd \/ ForSkip \/ ForRun \/ Attempt \/ Return \/ Except \/ Switch

PairSpec == PairInit /\ [][PairNext]_vars

\* execute_workflow with a caller that may ask for a pause
PauseNext == Next \/ RequestPause

PauseSpec == Init /\ [][PauseNext]_vars

(***************************************************************************)
(* The retry loop with larger retry budgets: plans of the steps s1, s3, s4  *)
(* and s5 with a retry_count up to MaxBackoffRetry.  execute_workflow is   *)
(* one sequential call (a single thread runs it to its return), so a call  *)
(* that has begun keeps taking its steps: weak fairness of the steps after *)
(* Execute.                                                                *)
(***************************************************************************)
RetryPlans ==
    {plan \in UNION {[1..n -> StepPool(r)] : n \in 1..MaxSteps,
                                             r \in 1..MaxBackoffRetry} :
        /\ UniqueIds(plan)
        /\ \A n \in 1..Len(plan) : plan[n].step_id \in {s_s1, s_s3, s_s4, s_s5}}

RetryInit ==
    /\ steps \in RetryPlans
    /\ status = "pending"
    /\ context = <<>>
    /\ current_step_index = 0
    /\ tool_registry = _register_default_tools
    /\ pc = "idle"
    /\ i = 0
    /\ attempt = 0
    /\ report = NoReport
    /\ runs = 0
    /\ visited = {}
    /\ cond_false = {}
    /\ calls = [n \in 1..Len(steps) |-> <<>>]
    /\ attempts0 = [n \in 1..Len(steps) |-> 0]
    /\ tool_call = NoCall
    /\ writer = <<>>
    /\ sleeps = [n \in 1..Len(steps) |-> <<>>]
    /\ NotCompiling
    /\ NoPureCall
    /\ pause_requested = FALSE
    /\ NoPair

RetryNext == Execute \/ ForEnd \/ ForSkip \/ ForRun \/ Attempt \/ Return \/ Except

RetrySpec ==
    /\ RetryInit
    /\ [][RetryNext]_vars
    /\ WF_vars(ForEnd \/ ForSkip \/ ForRun \/ Attempt \/ Return \/ Except)

(***************************************************************************)
(* register_tool called by another thread while execute_workflow runs: the *)
(* assignment to the dict is one step, taken at any moment, between two    *)
(* attempts of a step as well.                                             *)
(***************************************************************************)
\* AtlasWorkflowEngine.register_tool: "self.tool_registry[tool_name] =
\* tool_function"
register_tool(registry, tool_name, tool_function) ==
    [name \in DOMAIN registry \cup {tool_name} |->
        IF name = tool_name THEN tool_function ELSE registry[name]]

\* a call of register_tool, for the tool echo that the engine does not know
\* or for system_command, with one of the two functions of the model
RegisterTool ==
    /\ \E tool_name \in {s_echo, s_system_command},
          tool_function \in {"_transform_data", "_system_command"} :
         tool_registry' = register_tool(tool_registry, tool_name, tool_function)
    /\ UNCHANGED <<steps, status, context, current_step_index, pc, i, attempt,
                   report, runs, visited, cond_false, calls, attempts0,
                   tool_call, writer, sleeps>>
    /\ UNCHANGED rest_vars

RegisterSpec == RetryInit /\ [][RetryNext \/ RegisterTool]_vars

(***************************************************************************)
(* Properties.                                                             *)
(***************************************************************************)
Returned == pc = "done"
\* the call returned from the try block (not from "except Exception")
ReturnedNormally == Returned /\ "final_result" \in report.keys
Last(s) == s[Len(s)]

\* C1: fail-fast on retry exhaustion.  When execute_workflow returns, every
\* step whose tool was called and returned success=false on every call has
\* attempts = retry_count and status failed, the plan is failed, and no step
\* after it was started by this call: the for loop did not reach it, its tool
\* was not called, and in the first execution of the plan it is still pending.
C1_FailFast ==
    Returned =>
      \A n \in 1..Len(steps) :
        (calls[n] # <<>> /\ \A k \in 1..Len(calls[n]) : calls[n][k] = "false") =>
          /\ steps[n].attempts = steps[n].retry_count
          /\ steps[n].status = "failed"
          /\ status = "failed"
          /\ \A m \in (n + 1)..Len(steps) :
               /\ (m - 1) \notin visited
               /\ calls[m] = <<>>
               /\ runs = 1 => steps[m].status = "pending"

C1_Witness ==
    /\ Returned
    /\ Len(steps) = 2
    /\ calls[1] = <<"false", "false">>
    /\ steps[1].attempts = 2
    /\ steps[2].status = "pending"

\* C2: an unknown tool is not retried.  After a one-step plan whose tool is
\* not registered has been executed, the report has success=false, the step
\* is failed and its attempts is 0.
C2_UnknownToolNotRetried ==
    (ReturnedNormally /\ Len(steps) = 1 /\ steps[1].tool \notin DOMAIN tool_registry) =>
      /\ report.success = FALSE
      /\ steps[1].status = "failed"
      /\ steps[1].attempts = 0

\* C3: happy path.  When execute_workflow returns for a plan in which no step
\* failed and no condition was false, the report has success=true and
\* current_step_index = len(steps) - 1.
C3_HappyPath ==
    (/\ ReturnedNormally
     /\ cond_false = {}
     /\ \A n \in 1..Len(steps) : steps[n].status # "failed") =>
      /\ report.success = TRUE
      /\ current_step_index = Len(steps) - 1

\* C4: skip is not failure.  A step whose condition evaluated to false is
\* skipped, its attempts is what it was when the call began, its tool was not
\* called, the plan is not failed at it, and the for loop goes on: to the
\* next step when there is one, to a completed plan when it was the last.
C4_SkipIsNotFailure ==
    \A n \in cond_false :
      /\ steps[n + 1].status = "skipped"
      /\ steps[n + 1].attempts = attempts0[n + 1]
      /\ calls[n + 1] = <<>>
      /\ status = "failed" => current_step_index # n
      /\ n + 1 < Len(steps) => ((n + 1) \in visited \/ (pc = "for" /\ i = n + 1))
      /\ (n + 1 = Len(steps) /\ Returned) => status = "completed"

C4_Witness ==
    /\ Returned
    /\ Len(steps) = 2
    /\ 0 \in cond_false
    /\ steps[1].status = "skipped"
    /\ steps[2].status = "success"

\* C5: forward-only data flow.  Whenever the condition of step N is about to
\* be evaluated or its parameters are about to be resolved, no key of the
\* context was last written by a step at a position after N, in the first
\* execution of the plan and in every later one.
C5_ForwardOnly ==
    ((pc = "for" /\ i < Len(steps)) \/ (pc = "retry" /\ attempt < Cur.retry_count)) =>
      \A key \in Keys(context) : Get(writer, key, 0) <= i

\* C6, as claimed: for every step with status success, the context holds
\* under the step's id exactly the step's result.
C6_ResultsInContext ==
    \A n \in 1..Len(steps) :
      steps[n].status = "success" =>
        /\ Has(context, steps[n].step_id)
        /\ Get(context, steps[n].step_id, NoneV) = steps[n].result

RollingKeys == {s_prev_result, s_last_success}

\* C6, amended: for every step with status success whose id is not one of
\* the rolling keys prev_result and last_success, the context holds under the
\* step's id exactly the step's result.
C6_ResultsInContextAmended ==
    \A n \in 1..Len(steps) :
      (steps[n].status = "success" /\ steps[n].step_id \notin RollingKeys) =>
        /\ Has(context, steps[n].step_id)
        /\ Get(context, steps[n].step_id, NoneV) = steps[n].result

C6_Witness ==
    /\ Len(steps) = 2
    /\ steps[1].step_id = s_s3
    /\ steps[2].step_id = s_s1
    /\ steps[1].status = "success"
    /\ steps[2].status = "success"
    /\ Get(context, s_s3, NoneV) = SystemOk

\* C7: prev_result holds the most recent step result, successful or not.
\* After a step has failed on a result with success=false, prev_result in the
\* context is that failing result.
C7_PrevResultIsLatest ==
    \A n \in 1..Len(steps) :
      (/\ Returned
       /\ steps[n].status = "failed"
       /\ calls[n] # <<>>
       /\ Last(calls[n]) = "false") =>
        Get(context, s_prev_result, NoneV) = SystemFailed

\* the steps with status success
Succeeded_steps == {n \in 1..Len(steps) : steps[n].status = "success"}
\* the last of them in plan order
LastSucceeded == CHOOSE n \in Succeeded_steps : \A m \in Succeeded_steps : m <= n

\* C8: last_success in the context, and final_result in the report, are the
\* result of the last step in plan order with status success; when no step
\* has succeeded, final_result is null.
C8_LastSuccess ==
    /\ Has(context, s_last_success) =>
         /\ Succeeded_steps # {}
         /\ Get(context, s_last_success, NoneV) = steps[LastSucceeded].result
    /\ Returned =>
         IF Succeeded_steps # {}
         THEN /\ "final_result" \in report.keys
              /\ report.final_result = steps[LastSucceeded].result
         ELSE report.final_result = NoneV

\* the value at field in the result stored under id in ctx
FieldOf(ctx, id, field) == Get(Get(ctx, id, NoneV).v, field, NoneV)

\* step n's parameter k is the placeholder {{id.field}} of step m, an
\* earlier step that succeeded and whose result, with this field, is what
\* the context held under its id when step n's tool was called
PassesField(n, k, m, field) ==
    /\ tool_call.index = n - 1
    /\ m < n
    /\ steps[m].status = "success"
    /\ Has(steps[m].result.v, field)
    /\ Get(tool_call.context, steps[m].step_id, NoneV) = steps[m].result
    /\ steps[n].params[k][2] = StrV(OPEN \o steps[m].step_id \o <<".">> \o field \o CLOSE)

FirstKeyAbsent(match, ctx) == ~Has(ctx, Head(Split(match)))

\* C10: a placeholder whose key is absent from the context is replaced by the
\* empty string.  Here for a parameter that is one placeholder: the tool
\* receives the empty string.
C10_MissingKeyIsEmpty ==
    tool_call.index >= 0 =>
      \A k \in 1..Len(tool_call.params) :
        LET raw == steps[tool_call.index + 1].params[k][2] IN
        (/\ IsStr(raw)
         /\ Len(FindAll(raw.v)) = 1
         /\ raw.v = OPEN \o Head(FindAll(raw.v)) \o CLOSE
         /\ FirstKeyAbsent(Head(FindAll(raw.v)), tool_call.context)) =>
          tool_call.params[k][2] = StrV(<<>>)

\* the try block of _evaluate_condition raises for this condition
ConditionRaises(condition, ctx) ==
    Once(LAMBDA text : Eval(text, ctx), ResolvedCondition(condition, ctx)) = Raised

\* the for loop is at a step whose condition is absent, empty, or raises
\* when it is evaluated
AtPermissiveStep ==
    /\ pc = "for"
    /\ i < Len(steps)
    /\ \/ ~Truthy(Cur.condition)
       \/ ConditionRaises(Cur.condition.v, context)

\* C11: permissive condition policy.  When the for loop is at a step whose
\* condition is absent or empty, or whose condition raises when it is parsed
\* or evaluated, the step is started (status running, not skipped), neither
\* the step nor the plan is failed by it, and execute_workflow goes on to the
\* step's retry loop (or to its own "except Exception" when update_callback
\* raised): nothing leaves the engine.
C11_PermissiveCondition ==
    [][AtPermissiveStep =>
         /\ steps'[i + 1].status = "running"
         /\ status' = "running"
         /\ i \in visited'
         /\ i \notin cond_false'
         /\ pc' \in {"retry", "except"}]_vars

\* a step whose condition does not parse ran and succeeded, and the plan
\* completed
C11_Witness ==
    /\ Returned
    /\ Len(steps) = 1
    /\ steps[1].condition = StrV(s_if_paren)
    /\ ConditionRaises(steps[1].condition.v, <<>>)
    /\ 0 \notin cond_false
    /\ steps[1].status = "success"
    /\ status = "completed"

\* create_workflow_from_task has been called and has returned or raised
Compiled == compiled # NoReport

\* C12: the plan compiler never raises and always returns an executable
\* plan.  For every task, every context given by the caller and every
\* response of the model, create_workflow_from_task returns a workflow with
\* at least one step, in status pending with every step pending.
C12_CompilerTotal ==
    Compiled =>
      /\ compiled.kind = "return"
      /\ Len(compiled.value.steps) >= 1
      /\ compiled.value.status = "pending"
      /\ \A n \in 1..Len(compiled.value.steps) :
           compiled.value.steps[n].status = "pending"

\* the model was called (the prompt could be built from the context) and the
\* call failed or its answer cannot be parsed as a plan: get_best_model or
\* generate_content raised, the response has no text, the text is not JSON,
\* the JSON is not an object, its steps are not something to go over or hold
\* an entry that is not an object, or its workflow_id cannot be a key
NoPlanFromModel ==
    /\ JsonSerialisable(IF Truthy(given_context) THEN given_context ELSE DictV(<<>>))
    /\ \/ response.kind = "raise"
       \/ ~IsStr(response.value)
       \/ LET loaded == json_loads(CleanUp(StripWs(response.value.v))) IN
            \/ loaded.kind = "raise"
            \/ ~IsDict(loaded.value)
            \/ LET entries == Iterated(Get(loaded.value.v, s_steps, ListV(<<>>))) IN
                 \/ entries.kind = "raise"
                 \/ \E n \in 1..Len(entries.value) : ~IsDict(entries.value[n])
            \/ ~Hashable(Get(loaded.value.v, s_workflow_id, StrV(s_wf_now)))

\* C13: deterministic fallback plan.  Whenever the model call fails or its
\* output cannot be parsed as a plan, create_workflow_from_task returns a
\* workflow with exactly one step, whose action is the task text verbatim
\* and whose tool is system_command, a tool of the default registry.
C13_FallbackPlan ==
    (Compiled /\ NoPlanFromModel) =>
      /\ compiled.kind = "return"
      /\ Len(compiled.value.steps) = 1
      /\ compiled.value.steps[1].action = task
      /\ compiled.value.steps[1].tool = s_system_command
      /\ compiled.value.steps[1].tool \in DOMAIN _register_default_tools
      /\ compiled.value.steps[1].tool \in DOMAIN tool_registry

\* the model answered with prose, and the fallback plan for the task "go"
\* was returned
C13_Witness ==
    /\ Compiled
    /\ task = s_go
    /\ response = Returns(StrV(<<"S", "u", "r", "e", "!">>))
    /\ NoPlanFromModel
    /\ compiled.kind = "return"
    /\ Len(compiled.value.steps) = 1
    /\ compiled.value.steps[1].action = s_go

\* C14: report completeness.  Every return of execute_workflow, from the try
\* block and from "except Exception", gives a report with the keys success,
\* workflow, final_result and execution_time, and success is true exactly
\* when the plan's status is completed.
C14_ReportComplete ==
    Returned =>
      /\ {"success", "workflow", "final_result", "execution_time"} \subseteq report.keys
      /\ report.success = (status = "completed")

\* str(e) for a call of the tools of this model that did not succeed
FailureMessage(kind) ==
    CASE kind = "raise" -> <<"c", "r", "a", "s", "h">>
      [] kind = "none" -> s_No_result
      [] kind = "false" -> Get(SystemFailed.v, s_error, NoneV).v

\* C15: step failures are contained.  After a call of a step's tool that
\* raised, returned success=false or returned nothing, the step's error is
\* the message of that failure, execute_workflow is in its retry loop or on
\* its way to the normal return (never in "except Exception", and nothing
\* leaves it); once the attempts are used up the step and the plan are
\* failed, and the failure is told by the report: success=false, with the
\* workflow.
C15_StepFailuresContained ==
    \A n \in 1..Len(steps) :
      (calls[n] # <<>> /\ Last(calls[n]) # "success") =>
        /\ steps[n].error = StrV(FailureMessage(Last(calls[n])))
        /\ steps[n].attempts = Len(calls[n])
        /\ pc \in {"retry", "return", "done"}
        /\ pc = "retry" =>
             /\ n = i + 1
             /\ steps[n].status = "running"
             /\ status = "running"
        /\ pc \in {"return", "done"} =>
             /\ steps[n].status = "failed"
             /\ status = "failed"
             /\ Len(calls[n]) = steps[n].retry_count
        /\ pc = "done" =>
             /\ report.success = FALSE
             /\ "workflow" \in report.keys
             /\ "error" \notin report.keys

\* a tool raised, then returned nothing: the step is failed with the last
\* message and the report tells it
C15_Witness ==
    /\ Returned
    /\ Len(steps) = 1
    /\ calls[1] = <<"raise", "none">>
    /\ steps[1].error = StrV(s_No_result)
    /\ steps[1].status = "failed"
    /\ report.success = FALSE

\* C16: contract violations are rejected.  A call of execute_workflow on a
\* plan with zero steps, or on a plan that is running or completed, does
\* not execute: the plan's status, context, cursor and steps stay as they
\* are and the for loop is not entered.
C16_ContractViolationsRejected ==
    [][(/\ pc \in {"idle", "done"}
        /\ (Len(steps) = 0 \/ status \in {"running", "completed"})) =>
         /\ UNCHANGED <<steps, status, context, current_step_index>>
         /\ pc' # "for"]_vars

\* C17: pause at step boundaries.  When a pause has been requested and the
\* for loop is at a step boundary with a step still to come, the engine
\* starts no further step, leaves current_step_index where it is and sets
\* the plan's status to paused.
C17_PauseAtBoundary ==
    [][(pause_requested /\ pc = "for" /\ i < Len(steps)) =>
         /\ steps' = steps
         /\ current_step_index' = current_step_index
         /\ status' = "paused"]_vars

\* C18: resume from the cursor.  Execution starts at the stored
\* current_step_index: the for loop is never at a step before it, and no
\* step before it is run again or has its status changed.
C18_ResumeFromCursor ==
    [][(pc = "for" /\ i < current_step_index) =>
         /\ steps' = steps
         /\ i \notin visited']_vars

\* every key of the items ctx was written by a step of the plan with these
\* steps (writes lists the step that last wrote each key) and holds that
\* step's result
OwnWritesOnly(ctx, writes, plan) ==
    \A key \in Keys(ctx) :
      /\ Has(writes, key)
      /\ Get(ctx, key, NoneV) = plan[Get(writes, key, 0) + 1].result

\* C19: context isolation between plans.  With two plans executed by one
\* engine in any interleaving: the context of the running plan, and the
\* context its last tool call resolved its parameters from, hold only what
\* steps of that plan wrote; and the dict that is the context of the waiting
\* plan holds what that plan left in it, written by its own steps only.
C19_ContextIsolation ==
    /\ OwnWritesOnly(context, writer, steps)
    /\ \A key \in Keys(tool_call.context) : Has(writer, key)
    /\ Content(ContextObject(Other(current))) = parked.context
    /\ OwnWritesOnly(Content(ContextObject(Other(current))), parked.writer, parked.steps)

\* the waiting plan has stored the result of its s1, and the running plan,
\* which has no s1, resolved {{s1.result}} of its s2 to "{}"
C19_Witness ==
    /\ Has(parked.context, s_s1)
    /\ steps[1].step_id = s_s3
    /\ ~Has(context, s_s1)
    /\ tool_call.index = 1
    /\ ~Has(tool_call.context, s_s1)
    /\ tool_call.params[1][2] = StrV(<<"{", "}">>)

C21_RetryBudget ==
    \A n \in 1..Len(steps) : steps[n].attempts <= steps[n].retry_count

\* a step with a retry_count of 3 failed on its third attempt
C21_Witness ==
    /\ Returned
    /\ steps[1].retry_count = 3
    /\ steps[1].attempts = 3
    /\ steps[1].status = "failed"

\* the for loop of this call reached step n and is not in its retry loop
Left(n) == (n - 1) \in visited /\ ~(pc = "retry" /\ i = n - 1)

\* C23: backoff placement and size.  The k-th sleep of a step's retry loop
\* lasts 2^(k-1) seconds (the sleep after the failed attempt with 0-based
\* index k-1).  While the retry loop runs there is one sleep for each failed
\* attempt and another attempt follows; when the loop is left, a step that
\* failed has slept once less than it made attempts (nothing after the final
\* attempt), a step that succeeded has slept once for each failed attempt,
\* and a step that was skipped or not reached has not slept.
C23_Backoff ==
    \A n \in 1..Len(steps) :
      /\ \A k \in 1..Len(sleeps[n]) : sleeps[n][k] = 2 ^ (k - 1)
      /\ (pc = "retry" /\ i = n - 1) =>
           /\ Len(sleeps[n]) = attempt
           /\ attempt < steps[n].retry_count
      /\ (Left(n) /\ steps[n].status = "failed") =>
           /\ steps[n].attempts = steps[n].retry_count
           /\ Len(sleeps[n]) = steps[n].attempts - 1
      /\ (Left(n) /\ steps[n].status = "success") =>
           Len(sleeps[n]) = steps[n].attempts - 1
      /\ (Left(n) /\ steps[n].status \in {"skipped", "running"}) => sleeps[n] = <<>>
      /\ (n - 1) \notin visited => sleeps[n] = <<>>

\* a budget of 3 and a tool that failed three times: two sleeps, of 1 and 2
\* seconds
C23_Witness ==
    /\ Returned
    /\ steps[1].retry_count = 3
    /\ calls[1] = <<"false", "false", "false">>
    /\ steps[1].status = "failed"
    /\ sleeps[1] = <<1, 2>>

\* C24: the retry loop stops at the first success.  In each call of
\* execute_workflow a step's tool is called at most retry_count times; a call
\* that returned success=true is the last one of the step, and the step's
\* attempts is then the 1-based index of that call and its status success.
C24_StopAtFirstSuccess ==
    \A n \in 1..Len(steps) :
      /\ Len(calls[n]) <= steps[n].retry_count
      /\ \A k \in 1..Len(calls[n]) :
           calls[n][k] = "success" =>
             /\ k = Len(calls[n])
             /\ steps[n].attempts = k
             /\ steps[n].status = "success"
             /\ ~(pc = "retry" /\ i = n - 1)

\* a budget of 3, a failure and then a success: attempts is 2 and the third
\* attempt was not made
C24_Witness ==
    /\ Returned
    /\ steps[1].retry_count = 3
    /\ calls[1] = <<"false", "success">>
    /\ steps[1].attempts = 2
    /\ status = "completed"

\* C25: plan outcome.  When execute_workflow has returned the plan is
\* completed or failed, and it is completed exactly when every step is
\* success or skipped; and every call that has entered the for loop returns.
C25_PlanOutcome ==
    /\ [](Returned =>
            /\ status \in {"completed", "failed"}
            /\ status = "completed" <=>
                 \A n \in 1..Len(steps) : steps[n].status \in {"success", "skipped"})
    /\ (pc = "for" ~> Returned)

\* a plan of a skipped and a successful step returned completed
C25_Witness ==
    /\ Returned
    /\ Len(steps) = 2
    /\ steps[1].status = "skipped"
    /\ steps[2].status = "success"
    /\ status = "completed"

\* C22: step status only moves forward.  In every step of the engine, over
\* any number of calls of execute_workflow on the plan, a step's status
\* changes only from pending to running or skipped and from running to
\* success or failed: a step that is success, failed or skipped keeps its
\* status.
C22_StatusForwardOnly ==
    [][\A n \in 1..Len(steps) :
         steps'[n].status # steps[n].status =>
           \/ steps[n].status = "pending" /\ steps'[n].status \in {"running", "skipped"}
           \/ steps[n].status = "running" /\ steps'[n].status \in {"success", "failed"}]_vars

\* C26: a failed plan identifies its halting step.  When execute_workflow has
\* returned with the plan failed, exactly one step is failed, it is the step
\* at current_step_index, its error is a non-empty message and its attempts
\* is the number of attempts made (its retry_count, the loop having been
\* used up); every earlier step is success or skipped and every later step
\* is pending.
C26_HaltingStepIdentified ==
    (Returned /\ status = "failed") =>
      /\ {n \in 1..Len(steps) : steps[n].status = "failed"} = {current_step_index + 1}
      /\ \A n \in 1..Len(steps) :
           /\ n < current_step_index + 1 => steps[n].status \in {"success", "skipped"}
           /\ n = current_step_index + 1 =>
                /\ IsStr(steps[n].error)
                /\ Len(steps[n].error.v) > 0
                /\ steps[n].attempts = steps[n].retry_count
           /\ n > current_step_index + 1 => steps[n].status = "pending"

\* what the steps of plan up to the n-th that are success have stored, one
\* after the other
RECURSIVE StoredBy(_, _)
StoredBy(plan, n) ==
    IF n = 0 THEN <<>>
    ELSE IF plan[n].status = "success"
    THEN StoreResult(StoredBy(plan, n - 1), plan[n].step_id, plan[n].result)
    ELSE StoredBy(plan, n - 1)

\* C30: the engine writes to the context only when a step succeeds.  The
\* only step of the engine that changes the context is the attempt that
\* makes a running step success, and it stores that step's result; a step
\* that becomes skipped or failed and an attempt that records an error leave
\* the context as it was.  So in the first execution of a plan the context
\* is what its successful steps stored, in plan order: after a failure it is
\* the context as the last successful step left it, and empty when no step
\* succeeded.
C30_ContextWrittenOnSuccess ==
    /\ [][/\ context' # context =>
              /\ pc = "retry"
              /\ steps[i + 1].status = "running"
              /\ steps'[i + 1].status = "success"
              /\ context' = StoreResult(context, Cur.step_id, steps'[i + 1].result)
          /\ \A n \in 1..Len(steps) :
               (/\ steps'[n] # steps[n]
                /\ \/ steps'[n].status \in {"skipped", "failed"}
                   \/ steps'[n].error # steps[n].error) =>
                 context' = context]_vars
    /\ [](runs <= 1 => context = StoredBy(steps, Len(steps)))

\* s1 succeeded, the unregistered tool of s4 used up its attempts: the
\* failed plan's context is what s1 stored
C30_Witness ==
    /\ Returned
    /\ status = "failed"
    /\ Len(steps) = 2
    /\ steps[1].step_id = s_s1
    /\ steps[1].status = "success"
    /\ steps[2].status = "failed"
    /\ steps[2].attempts = 3
    /\ context = StoreResult(<<>>, s_s1, steps[1].result)

\* the condition without its leading "if "
Body(e) == IF StartsWith(e, s_if) THEN SubSeq(e, Len(s_if) + 1, Len(e)) ELSE e
\* its reference, as the keys of the dotted path, and its value
RefOf(e) == Split(Before(Body(e), <<" ">> \o OperatorIn(Body(e)) \o <<" ">>))
ValueOf(e) == After(Body(e), <<" ">> \o OperatorIn(Body(e)) \o <<" ">>)

\* the keys of parts lead through nested dicts from val
RECURSIVE PathExists(_, _)
PathExists(val, parts) ==
    \/ Len(parts) = 0
    \/ /\ IsDict(val)
       /\ Has(val.v, Head(parts))
       /\ PathExists(Get(val.v, Head(parts), NoneV), Tail(parts))

\* e is "X.path op value": X a key of ctx, the dotted path in the nested
\* dicts under X, and the value at it a number
IsDottedComparison(e, ctx) ==
    /\ OperatorIn(Body(e)) # <<>>
    /\ Len(RefOf(e)) >= 2
    /\ ValueOf(e) \in Digits
    /\ PathExists(DictV(ctx), RefOf(e))
    /\ Walk(DictV(ctx), RefOf(e)).t \in {"bool", "int"}

\* C27: comparisons over dotted context references.  For a condition
\* "X.path op value" whose path exists in the context, _evaluate_condition
\* returns the truth value of the comparison of the value at the path with
\* the value of the condition.
C27_DottedComparison ==
    (evaluated.kind = "condition" /\ IsDottedComparison(expression, bindings)) =>
      evaluated.value =
        Compare(Walk(DictV(bindings), RefOf(expression)),
                OperatorIn(Body(expression)),
                IntV(CHOOSE n \in 0..9 : Decimal(n) = ValueOf(expression)))

\* the text with each placeholder replaced by its own value, from left to
\* right, the values not being looked at again
RECURSIVE SubstIndependent(_, _, _)
SubstIndependent(s, p, ctx) ==
    IF p > Len(s) THEN <<>>
    ELSE IF MatchEnd(s, p) = 0 THEN <<s[p]>> \o SubstIndependent(s, p + 1, ctx)
    ELSE LET match == SubSeq(s, p + 2, MatchEnd(s, p) - 2) IN
         (IF Contains(match, <<".">>) THEN DottedText(match, ctx)
          ELSE PlainText(match, ctx))
         \o SubstIndependent(s, MatchEnd(s, p) + 1, ctx)

\* C28: multiple placeholders are resolved independently.  The resolved
\* string is the original with each placeholder replaced by its own context
\* value; text that a substituted value brought in is not substituted again.
C28_IndependentPlaceholders ==
    evaluated.kind = "params" =>
      evaluated.value = << <<s_task, StrV(SubstIndependent(expression, 1, bindings))>> >>

\* C29: the tool is looked up anew in every attempt.  An attempt of a step
\* (a step of the retry loop, which leaves the registry alone) has the
\* outcome of the function that the registry binds to the step's tool at
\* that moment, the last one registered: with no binding the attempt fails
\* with "Unknown tool" and calls nothing; with _transform_data it succeeds
\* with the transformed data; with _system_command it calls the system agent
\* and a success stores the agent's result.
C29_LookupPerAttempt ==
    [][(pc = "retry" /\ tool_registry' = tool_registry) =>
         LET n == i + 1
             bound == IF Cur.tool \in DOMAIN tool_registry
                      THEN tool_registry[Cur.tool] ELSE "unbound"
         IN CASE bound = "unbound" ->
                   /\ steps'[n].error = StrV(s_Unknown_tool \o Cur.tool)
                   /\ steps'[n].status # "success"
                   /\ calls'[n] = calls[n]
              [] bound = "_transform_data" ->
                   /\ steps'[n].status = "success"
                   /\ steps'[n].result =
                        DictV(<< <<s_success, BoolV(TRUE)>>,
                                 <<s_result, Get(ResolveEffect(Cur.params, context).resolved,
                                                 s_data, StrV(<<>>))>> >>)
                   /\ calls'[n] = Append(calls[n], "success")
              [] bound = "_system_command" ->
                   /\ Len(calls'[n]) = Len(calls[n]) + 1
                   /\ steps'[n].status = "success" => steps'[n].result = SystemOk
                   /\ steps'[n].status # "success" =>
                        steps'[n].error \in {StrV(<<"b", "o", "o", "m">>),
                                             StrV(<<"c", "r", "a", "s", "h">>),
                                             StrV(s_No_result)}]_vars

\* a step of the tool echo, unknown at its first attempt, ended with status
\* success at its second one
C29_Witness ==
    /\ runs = 1
    /\ \E n \in 1..Len(steps) :
         /\ steps[n].tool = s_echo
         /\ steps[n].error = StrV(s_Unknown_tool \o s_echo)
         /\ steps[n].attempts >= 2
         /\ steps[n].status = "success"

====
